---- MODULE Spec2Model ----
(***************************************************************************)
(* Model of src/app.js (module version, lines 658-1311): the local keyed   *)
(* store RecipeStore (IndexedDB), the remote mirror CloudStore (Firestore), *)
(* the Settings blob (localStorage) and the UI controller functions that   *)
(* reconcile them (init, saveRecipe, confirmDelete, syncWithCloud,         *)
(* syncSettingsWithCloud).                                                 *)
(*                                                                         *)
(* JavaScript runs one handler at a time; an async function is suspended   *)
(* at every await.  Each action below is one run-to-suspension step: an    *)
(* event handler up to its first await, or the continuation that follows   *)
(* the settling of an awaited promise up to the next await.                *)
(***************************************************************************)
EXTENDS Integers, Sequences, FiniteSets, TLC

(***************************************************************************)
(* Bounds of the model.                                                    *)
(***************************************************************************)
MaxClock == 2
MaxCalls == 3
\* The decodes Html5Qrcode delivers to one callback.
MaxDecodes == 2

(***************************************************************************)
(* Values.                                                                 *)
(***************************************************************************)
Keys == {"A", "B", "C"}
Null == "null"
DataImage == "data:image/png;base64"
UrlImage == "https://res.cloudinary.com/img"

\* request.result of a get for a key that is not stored (src/app.js:775).
Undefined == [undefined |-> TRUE]

\* UI.cloud = null (lines 867 and 900).
NoCloud == [none |-> TRUE]

\* docSnap.exists() is false: getSettings returns null (line 726).
NoDoc == [none |-> TRUE]

\* UI.saveRecipe is not waiting for an upload.
NoUpload == [none |-> TRUE]

\* No barcode: the field before any scan, no recipe shown.
NoKey == ""

\* JSON.parse('{}'): the settings when the item is empty (line 855).
NoSettings == [f \in {} |-> ""]

\* No record.
NoRecord == [none |-> TRUE]

\* The passcode validatePasscode compares with (line 1296).
Passcode == "0077"

\* The passcode modal as the page shows it at load: hidden, no error, the
\* input empty; unlocked remembers that validatePasscode has seen Passcode.
ModalHidden ==
    [open |-> FALSE, error |-> FALSE, input |-> "", unlocked |-> FALSE]

\* The text Tesseract.recognize reads from the image captured for the entry
\* of a barcode.
OcrText(barcode) ==
    CASE barcode = "A" -> "text of A"
      [] barcode = "B" -> "text of B"
      [] OTHER -> "text of C"

\* UI.extractText is not running: the loader is hidden and the button can
\* be clicked (a click without a captured image returns at line 1113).
OcrIdle == [running |-> <<>>, loader |-> FALSE, disabled |-> FALSE]

\* new BarcodeScanner('reader', ...) (lines 802-806 and 877): the scanner
\* is not started, no start is pending and nothing has been decoded.
ScannerIdle ==
    [cam |-> "idle", perm |-> 0, enum |-> 0, decoded |-> FALSE, passed |-> 0,
     restop |-> FALSE]

VARIABLES
    now,        \* the device clock read by new Date()
    local,      \* object store 'recipes' of RecipeScanDB: a set of records
    txq,        \* IndexedDB transactions created and not yet run, oldest first
    calls,      \* StoreSpec: number of RecipeStore calls issued by the client
    lastWrite,  \* StoreSpec: per key, the last write that ran successfully
    got,        \* StoreSpec, ListSpec: the request that ran last and how it
                \* settled
    remote,     \* Firestore users/{userId}/recipes: a set of documents
    remoteSettings, \* Firestore users/{userId}/config/appSettings, or NoDoc
    net,        \* CloudStore calls whose network request is in flight
    settings,   \* localStorage item recipe_scan_settings, as Settings.get reads it
    cloud,      \* UI.cloud
    initPc,     \* position of UI.init
    syncPc,     \* position of UI.syncWithCloud ("failed": the fetch was
                \* rejected; "aborted": a save of the loop was rejected)
    settingsPc, \* position of UI.syncSettingsWithCloud
    view,       \* id of the view that has class 'active'
    detail,     \* barcode of the recipe shown by showRecipeDetail
    barcodeField,   \* value of input #recipe-barcode
    capturedImage,  \* UI.capturedImage
    notesField,     \* value of textarea #recipe-instructions
    ocr,        \* UI.extractText: per run in flight the barcode of the entry
                \* it was started for; loader and button
    scanner,    \* UI.scanner: the Html5Qrcode state and the pending starts
    upload,     \* the Cloudinary upload UI.saveRecipe is waiting for
    ops,        \* number of clicks handled (navigation, save, delete, settings)
    mutated,    \* the user has started a save or a delete
    del,        \* per key, how far the last user delete got
    local0,     \* content of the object store when the page was loaded
    settings0,  \* the settings item when the page was loaded
    remote0,    \* the remote documents when the page was loaded
    userSaved,  \* per key, the record UI.saveRecipe stored last, if any
    modal,      \* the passcode modal: shown, error shown, value of the input
    nameField,  \* value of input #recipe-name
    writes,     \* StoreSpec: per key, the write call issued last
    syncing,    \* element #sync-status has class 'syncing'
    recentList, \* the recipe cards of element #recent-list, first to last
    fullList,   \* the recipe cards of element #full-list, first to last
    last        \* the handler that ran last and what it did

storeVars == <<now, local, txq>>
clientVars == <<calls, lastWrite, got>>
\* The notes field and the text extraction of the entry form.
entryVars == <<notesField, ocr>>
\* The passcode modal, the name field and what is remembered of the session.
auxVars == <<remote0, recentList, fullList, userSaved, modal, nameField,
             writes, syncing>>

\* The variables of the application that the clients of StoreSpec leave alone.
restVars == <<remote, remoteSettings, net, settings, cloud, initPc, syncPc,
              settingsPc, view, detail, barcodeField, capturedImage,
              notesField, ocr, scanner, upload, ops, mutated, del, local0,
              settings0, remote0,
              recentList, fullList, userSaved, modal, nameField, syncing,
              last>>
appVars == <<restVars, writes>>
vars == <<now, local, txq, calls, lastWrite, got, remote, remoteSettings, net,
          settings, cloud, initPc, syncPc, settingsPc, view, detail,
          barcodeField, capturedImage, notesField, ocr, scanner, upload, ops,
          mutated, del, local0, settings0, remote0,
          recentList, fullList, userSaved, modal,
          nameField, writes, syncing, last>>

(***************************************************************************)
(* RecipeStore: the object store has keyPath 'barcode' (line 744), so a    *)
(* record is stored under the value of its barcode field.                  *)
(***************************************************************************)
HasKey(store, key) == \E r \in store : r.barcode = key

\* A stamp that keeps the date a record already carries.
Stamp_keep(recipe, t) ==
    IF "date" \in DOMAIN recipe THEN recipe
    ELSE [f \in (DOMAIN recipe) \cup {"date"} |->
             IF f = "date" THEN t ELSE recipe[f]]

\* recipe.date = new Date().toISOString() (line 763).  A date is modelled by
\* its clock reading: toISOString is injective and order preserving on it.
Stamp(recipe, t) ==
    [f \in (DOMAIN recipe) \cup {"date"} |-> IF f = "date" THEN t ELSE recipe[f]]

\* A put that merges field by field: the stored value is kept for every
\* field the new record lacks.
StorePut_merge(store, recipe) ==
    {r \in store : r.barcode # recipe.barcode}
        \cup {IF HasKey(store, recipe.barcode)
              THEN recipe @@ (CHOOSE r \in store : r.barcode = recipe.barcode)
              ELSE recipe}

\* store.put(recipe) (line 764): the record replaces whatever is stored
\* under its key.
\* A put that makes the store a copy of what it is given: every other record
\* is dropped.
StorePut_only(store, recipe) == {recipe}

StorePut(store, recipe) ==
    {r \in store : r.barcode # recipe.barcode} \cup {recipe}

\* store.delete(barcode) (line 794): succeeds whether or not the key is stored.
StoreDelete(store, key) ==
    {r \in store : r.barcode # key}

\* A get that fails for a key that is not stored.
StoreGet_throws(store, key) ==
    IF HasKey(store, key)
    THEN [outcome |-> "resolved", result |-> CHOOSE r \in store : r.barcode = key]
    ELSE [outcome |-> "rejected", result |-> Undefined]

\* store.get(barcode) (lines 774-775): request.result is the record, or
\* undefined when the key is not stored; onsuccess fires in both cases.
StoreGet(store, key) ==
    IF HasKey(store, key)
    THEN [outcome |-> "resolved", result |-> CHOOSE r \in store : r.barcode = key]
    ELSE [outcome |-> "resolved", result |-> Undefined]

\* The object store after transaction tx has run; io is FALSE when the
\* underlying request fails (request.onerror, lines 766 and 796).
ApplyTx(store, tx, io) ==
    IF ~io THEN store
    ELSE IF tx.op = "put" THEN StorePut(store, tx.arg)
    ELSE IF tx.op = "delete" THEN StoreDelete(store, tx.arg)
    ELSE store

\* The recipe object built by UI.saveRecipe (lines 1073-1078).
Recipe(barcode, name, instructions, image) ==
    [barcode |-> barcode, name |-> name, instructions |-> instructions,
     image |-> image]

\* RecipeStore.saveRecipe (lines 759-768): the promise executor runs at once;
\* it stamps the date and issues the put in a new readwrite transaction.
SaveRecipeTx(recipe, k) ==
    [op |-> "put", arg |-> Stamp(recipe, now), k |-> k]

\* RecipeStore.getRecipe (lines 770-778).
GetRecipeTx(barcode, k) ==
    [op |-> "get", arg |-> barcode, k |-> k]

\* RecipeStore.deleteRecipe (lines 790-798).
DeleteRecipeTx(barcode, k) ==
    [op |-> "delete", arg |-> barcode, k |-> k]

\* The key a transaction works on.
TxKey(tx) == IF tx.op = "put" THEN tx.arg.barcode ELSE tx.arg

\* How the promise of a RecipeStore call settles when its request has run:
\* onsuccess resolves it (with request.result for a get), onerror rejects it.
Settle(store, tx, io) ==
    IF ~io THEN [outcome |-> "rejected", result |-> Undefined]
    ELSE IF tx.op = "get" THEN StoreGet(store, tx.arg)
    ELSE [outcome |-> "resolved", result |-> Undefined]

\* new Date() reads a clock that does not run backwards.
Tick ==
    /\ now < MaxClock
    /\ now' = now + 1
    /\ UNCHANGED <<local, txq, clientVars, appVars>>

(***************************************************************************)
(* StoreSpec: a client of RecipeStore alone.  It issues saveRecipe,        *)
(* getRecipe and deleteRecipe calls without waiting for one another; the   *)
(* transactions run in the order of their creation.                        *)
(***************************************************************************)
ClientKeys == {"A", "B"}

ClientRecords ==
    UNION {{Recipe(key, "x", "", DataImage),
            [barcode |-> key, name |-> "y"],
            Stamp(Recipe(key, "x", "", Null), 0),
            Stamp(Recipe(key, "x", "", Null), MaxClock)} : key \in ClientKeys}

NoWrite == [op |-> "none"]
\* No write call has been issued: per key the call issued last, whether a
\* write was issued while another one for its key had not run, and whether a
\* write request failed.
NoWrites ==
    [call |-> [key \in ClientKeys |-> NoWrite], overlapped |-> FALSE,
     failed |-> FALSE]
\* A write for the key waits in the queue.
WritePending(key) ==
    \E i \in 1..Len(txq) : txq[i].op # "get" /\ TxKey(txq[i]) = key
NoRequest == [op |-> "none"]
NoStep == [fn |-> "none"]

\* The application is not running: StoreSpec drives RecipeStore directly.
AppAtRest ==
    /\ remote = {} /\ remoteSettings = NoDoc /\ net = {}
    /\ settings = NoSettings /\ settings0 = NoSettings /\ cloud = NoCloud
    /\ initPc = "none" /\ syncPc = "idle" /\ settingsPc = "idle"
    /\ view = "view-home" /\ detail = NoKey /\ barcodeField = NoKey
    /\ capturedImage = Null /\ scanner = ScannerIdle /\ upload = NoUpload
    /\ notesField = "" /\ ocr = OcrIdle
    /\ ops = 0 /\ mutated = FALSE /\ del = [key \in Keys |-> "none"]
    /\ local0 = {} /\ last = NoStep
    /\ remote0 = {} /\ userSaved = [key \in Keys |-> NoRecord]
    /\ modal = ModalHidden /\ nameField = "" /\ syncing = FALSE
    /\ recentList = <<>> /\ fullList = <<>>

StoreInit ==
    /\ AppAtRest
    /\ now = 0
    /\ local = {Stamp(Recipe("A", "x", "", DataImage), 0)}
    /\ txq = <<>>
    /\ calls = 0
    /\ lastWrite = [key \in ClientKeys |-> NoWrite]
    /\ got = NoRequest
    /\ writes = NoWrites

ClientSave ==
    \E recipe \in ClientRecords :
        /\ calls < MaxCalls
        /\ calls' = calls + 1
        /\ txq' = Append(txq, SaveRecipeTx(recipe,
                      [fn |-> "client", given |-> recipe, at |-> now]))
        /\ writes' =
             [writes EXCEPT
                 !.call[recipe.barcode] =
                     [op |-> "put", given |-> recipe, at |-> now],
                 !.overlapped = @ \/ WritePending(recipe.barcode)]
        /\ UNCHANGED <<now, local, lastWrite, got, restVars>>

ClientGet ==
    \E key \in ClientKeys :
        /\ calls < MaxCalls
        /\ calls' = calls + 1
        /\ txq' = Append(txq, GetRecipeTx(key, [fn |-> "client"]))
        /\ UNCHANGED <<now, local, lastWrite, got, writes, restVars>>

ClientDelete ==
    \E key \in ClientKeys :
        /\ calls < MaxCalls
        /\ calls' = calls + 1
        /\ txq' = Append(txq, DeleteRecipeTx(key, [fn |-> "client"]))
        /\ writes' = [writes EXCEPT !.call[key] = [op |-> "delete"],
                                    !.overlapped = @ \/ WritePending(key)]
        /\ UNCHANGED <<now, local, lastWrite, got, restVars>>

\* The transactions of RecipeStore all have the scope ['recipes'] (lines
\* 761, 773, 783, 792) and are created in the task of their call; here the
\* one created last would run first.
RunsNext_newest(q) == Len(q)

\* The transactions of RecipeStore all have the scope ['recipes'] and are
\* created in the task of their call (the executor of new Promise runs at
\* once): IndexedDB runs transactions of overlapping scope, one of them
\* readwrite, in the order of their creation.
RunsNext(q) == 1

\* The oldest transaction runs and the promise of its call settles
\* (request.onsuccess / request.onerror).
ClientTxRun ==
    /\ txq # <<>>
    /\ txq[RunsNext(txq)].k.fn = "client"
    /\ \E io \in BOOLEAN :
         LET tx == txq[RunsNext(txq)]
             key == TxKey(tx)
             settled == Settle(local, tx, io)
         IN /\ local' = ApplyTx(local, tx, io)
            /\ txq' = [i \in 1..(Len(txq) - 1) |->
                          IF i < RunsNext(txq) THEN txq[i] ELSE txq[i + 1]]
            /\ writes' = [writes EXCEPT
                              !.failed = @ \/ (~io /\ tx.op # "get")]
            /\ got' = [op |-> tx.op, key |-> key, io |-> io,
                       outcome |-> settled.outcome, result |-> settled.result,
                       prev |-> lastWrite[key], had |-> HasKey(local, key),
                       kept |-> (ApplyTx(local, tx, io) = local)]
            /\ lastWrite' =
                 IF io /\ tx.op = "put"
                 THEN [lastWrite EXCEPT ![key] =
                          [op |-> "put", given |-> tx.k.given, at |-> tx.k.at]]
                 ELSE IF io /\ tx.op = "delete"
                 THEN [lastWrite EXCEPT ![key] =
                          [op |-> "delete", had |-> HasKey(local, key)]]
                 ELSE lastWrite
            /\ UNCHANGED <<now, calls, restVars>>

StoreNext == ClientSave \/ ClientGet \/ ClientDelete \/ ClientTxRun \/ Tick

StoreSpec == StoreInit /\ [][StoreNext]_vars

(***************************************************************************)
(* Claims about RecipeStore, checked under StoreSpec.                      *)
(***************************************************************************)
\* A getRecipe has run whose key was last written by a saveRecipe.
GetAfterSave == got.op = "get" /\ got.io /\ got.prev.op = "put"

\* The record a getRecipe returns after saveRecipe(R): R in every field but
\* the date, and a date not earlier than the call of saveRecipe.
SavedAsGiven ==
    /\ got.outcome = "resolved"
    /\ got.result # Undefined
    /\ DOMAIN got.result = (DOMAIN got.prev.given) \cup {"date"}
    /\ \A f \in (DOMAIN got.prev.given) \ {"date"} :
          got.result[f] = got.prev.given[f]
    /\ got.result.date >= got.prev.at

\* C6 as stated: saveRecipe(R) then getRecipe(R.barcode) returns R in every
\* field except date, with a date not earlier than the call of saveRecipe and
\* not earlier than any date R carried before.
C6_Original ==
    GetAfterSave =>
        /\ SavedAsGiven
        /\ "date" \in DOMAIN got.prev.given
              => got.result.date >= got.prev.given.date

\* C6 amended: saveRecipe(R) then getRecipe(R.barcode), with no other write
\* to the key in between, returns R in every field except date, and the date
\* is not earlier than the call of saveRecipe; it is not earlier than a date
\* R carried before whenever that date was not later than the clock at the
\* call.
C6_SaveThenGet ==
    GetAfterSave =>
        /\ SavedAsGiven
        /\ ("date" \in DOMAIN got.prev.given
               /\ got.prev.given.date <= got.prev.at)
              => got.result.date >= got.prev.given.date

\* A get has returned a record saved after the clock had advanced, the record
\* having carried an older date into saveRecipe.
C6_Witness ==
    /\ GetAfterSave
    /\ "date" \in DOMAIN got.prev.given
    /\ got.prev.given.date < got.prev.at
    /\ got.result.date = got.prev.at

\* C7: LocalStore holds at most one record per key, and the record of a key
\* is the one saved last, in full: its fields are those of the last saveRecipe
\* argument (plus the date) and no field of an earlier record survives.
C7_OverwriteInFull ==
    /\ \A r1, r2 \in local : r1.barcode = r2.barcode => r1 = r2
    /\ \A key \in ClientKeys :
          lastWrite[key].op = "put" =>
              /\ HasKey(local, key)
              /\ \A r \in local :
                    r.barcode = key =>
                        r = Stamp(lastWrite[key].given, lastWrite[key].at)

\* A record that lacks the image field has been saved over one that had it.
C7_Witness ==
    /\ got.op = "put" /\ got.io
    /\ got.prev.op = "put"
    /\ "image" \in DOMAIN got.prev.given
    /\ "image" \notin DOMAIN lastWrite[got.key].given
    /\ got.prev.given.name # lastWrite[got.key].given.name

\* C8: getRecipe after deleteRecipe of the same key resolves with no record;
\* deleteRecipe of a key that is not stored resolves and leaves the store as
\* it was.
C8_DeleteThenGet ==
    /\ (got.op = "get" /\ got.io /\ got.prev.op = "delete")
          => got.outcome = "resolved" /\ got.result = Undefined
    /\ (got.op = "delete" /\ got.io /\ ~got.had)
          => got.outcome = "resolved" /\ got.kept

\* A get has run after the delete of a key that was not stored.
C8_Witness ==
    /\ got.op = "get" /\ got.io
    /\ got.prev.op = "delete" /\ ~got.prev.had
    /\ got.result = Undefined

\* C23: once every request has run and no write has failed, the object
\* store holds for each key the effect of the write call issued last for it:
\* the record of that saveRecipe, stamped at its call, or no record after a
\* deleteRecipe.
C23_CallOrder ==
    txq = <<>> /\ ~writes.failed =>
        \A key \in ClientKeys :
            LET call == writes.call[key]
            IN /\ call.op = "put" =>
                      \A r \in local :
                          r.barcode = key => r = Stamp(call.given, call.at)
               /\ call.op = "put" => HasKey(local, key)
               /\ call.op = "delete" => ~HasKey(local, key)

\* C23 happens: writes for one key were issued without waiting for one
\* another, all have run and none failed.
C23_Witness ==
    /\ txq = <<>> /\ ~writes.failed /\ writes.overlapped
    /\ \E key \in ClientKeys :
           writes.call[key].op = "delete" /\ lastWrite[key].op = "delete"
               /\ lastWrite[key].had

(***************************************************************************)
(* Settings and CloudStore.                                                *)
(***************************************************************************)
\* A settings field is truthy: present and not the empty string.
IsSet(s, f) == f \in DOMAIN s /\ s[f] # ""

\* An initCloud that does not ask for the user id.
InitCloud_noUserId(s, db) ==
    IF IsSet(s, "fbApiKey") /\ IsSet(s, "fbProjectId") /\ IsSet(s, "fbAppId")
    THEN [userId |-> IF "fbUserId" \in DOMAIN s THEN s.fbUserId ELSE "",
          db |-> db]
    ELSE NoCloud

\* UI.initCloud (lines 885-903): UI.cloud is a CloudStore when the four
\* connection fields are set, null otherwise.  db is FALSE when initializeApp
\* or getFirestore throws in the constructor (lines 681-694).
InitCloud(s, db) ==
    IF IsSet(s, "fbApiKey") /\ IsSet(s, "fbProjectId") /\ IsSet(s, "fbAppId")
           /\ IsSet(s, "fbUserId")
    THEN [userId |-> s.fbUserId, db |-> db]
    ELSE NoCloud

\* The guard of every CloudStore method: if (!this.db || !this.userId) return.
CloudUsable(c) == c # NoCloud /\ c.db /\ c.userId # ""

\* A merge in which the local value wins.
MergeSettings_localWins(localSettings, cloudSettings) ==
    localSettings @@ cloudSettings

\* { ...localSettings, ...cloudSettings } (line 1252).
MergeSettings(localSettings, cloudSettings) ==
    cloudSettings @@ localSettings

\* A handler that never calls CloudStore.
MirrorCalls_none(c, call) == {}

\* if (this.cloud) this.cloud.saveRecipe(recipe) (lines 1084-1086 and
\* 1202-1204): the CloudStore calls a handler makes after a local write.
MirrorCalls(c, call) == IF c = NoCloud THEN {} ELSE {call}

\* A CloudStore whose calls all return at the guard.
Sent_none(c, called) == {}

\* A guard that tests the user id only.
Sent_withoutDb(c, called) ==
    IF c # NoCloud /\ c.userId # "" THEN called ELSE {}

\* The calls that start a network request.
Sent(c, called) == IF CloudUsable(c) THEN called ELSE {}

\* A mirror call awaited inside the try block of UI.saveRecipe: its
\* rejection would reach the catch and its alert.
MirrorFailureNotice_alert(op) == {"Error saving recipe"}

\* .catch(err => console.error(...)) (lines 1085 and 1203): nothing is shown.
MirrorFailureNotice(op) == {}

\* setDoc(ref, recipe) with document id recipe.barcode (lines 699-700).
SetDoc(docs, recipe) ==
    {d \in docs : d.barcode # recipe.barcode} \cup {recipe}

\* deleteDoc(ref) (lines 705-706).
DeleteDoc(docs, barcode) == {d \in docs : d.barcode # barcode}

\* querySnapshot.docs.map(doc => doc.data()) (line 713): Firestore returns
\* the documents of a collection in the order of their ids.
KeyOrder == <<"A", "B", "C">>

DocsInOrder(docs) ==
    LET ks == SelectSeq(KeyOrder, LAMBDA key : HasKey(docs, key))
    IN [i \in 1..Len(ks) |-> CHOOSE d \in docs : d.barcode = ks[i]]

\* A pull that skips a remote record when the local one is not older.
PullList_newer(docs, store) ==
    SelectSeq(DocsInOrder(docs),
              LAMBDA d : ~\E r \in store : r.barcode = d.barcode
                                             /\ r.date >= d.date)

\* for (const recipe of cloudRecipes) (line 1230): every remote record is
\* saved, whatever LocalStore holds.
PullList(docs, store) == DocsInOrder(docs)

\* A failed upload that loses the captured image.
UploadedImage_lost(ok, image) == IF ok THEN UrlImage ELSE Null

\* imageUrl after the try block of the upload (lines 1052-1066): the URL
\* of the uploaded image, or the captured image when the upload failed.
UploadedImage(ok, image) == IF ok THEN UrlImage ELSE image

\* The condition of the Cloudinary upload (line 1056).
\* The condition of line 1056 without its tests of the captured image.
UploadWanted_anyImage(s, image) ==
    IsSet(s, "cloudName") /\ IsSet(s, "uploadPreset")

UploadWanted(s, image) ==
    IsSet(s, "cloudName") /\ IsSet(s, "uploadPreset") /\ image = DataImage

\* A validation that lets every name through.
NameGiven_any(name) == TRUE

\* if (!name) return alert('Please enter a name') (line 1050).
NameGiven(name) == name # ""

(***************************************************************************)
(* BarcodeScanner.  cam is the state of the Html5Qrcode object: "idle"     *)
(* (not started), "starting" (scanner.start pending), "scanning"           *)
(* (isScanning is true and decodes are delivered) and "stopping"           *)
(* (scanner.stop pending, isScanning still true).  perm and enum count the *)
(* calls of BarcodeScanner.start that wait for getUserMedia and for        *)
(* getCameras; decoded tells that the decode callback has run since the    *)
(* scanner view was last opened.                                           *)
(***************************************************************************)
\* BarcodeScanner.start up to its first await, getUserMedia (lines 808-811).
ScannerStart(s) == [s EXCEPT !.perm = @ + 1, !.decoded = FALSE]

\* BarcodeScanner.stop (lines 845-849): scanner.stop() is called only when
\* isScanning is true.  Nothing in the method remembers that a stop is under
\* way: when it runs again before scanner.stop() has settled, restop records
\* that the decision was left to Html5Qrcode's isScanning.
ScannerStop(s) ==
    IF s.cam = "scanning" THEN [s EXCEPT !.cam = "stopping"]
    ELSE IF s.cam = "stopping" THEN [s EXCEPT !.restop = TRUE]
    ELSE s

\* The test of UI.handleScanResult (line 1032) with every lookup taken for a
\* hit.
Existing_always(result) == TRUE

\* The test of UI.handleScanResult (line 1032): if (existing).
Existing(result) == result # Undefined

\* UI.syncWithCloud without its finally block: the class would only be
\* removed at the end of the try block.
SyncingAfter_noFinally(pc) ==
    pc \in {"fetching", "saving", "failed", "aborted"}

\* Whether #sync-status has the class 'syncing' when UI.syncWithCloud has got
\* to position pc: it is added before the fetch (line 1226) and removed in
\* the finally block (line 1238).
SyncingAfter(pc) == pc \in {"fetching", "saving"}

\* What the catch blocks of the startup pulls show: console.error only.
PullFailureNotice(ok) == {}

\* A validatePasscode that lets every input through.
PasscodeOk_any(typed) == TRUE

\* The test of validatePasscode (line 1296): input.value === '0077'.
PasscodeOk(typed) == typed = Passcode

\* The head of UI.switchView (lines 1012-1016).
SwitchView(s, viewId) ==
    IF viewId # "view-scanner" THEN ScannerStop(s) ELSE ScannerStart(s)

\* The number of camera acquisitions requested, under way or held.
Acquisitions(s) == s.perm + s.enum + (IF s.cam = "idle" THEN 0 ELSE 1)

\* No step of BarcodeScanner.start or BarcodeScanner.stop is pending.
ScannerSettled ==
    scanner.perm = 0 /\ scanner.enum = 0 /\ scanner.cam \in {"idle", "scanning"}

(***************************************************************************)
(* What a handler did, kept in last.                                       *)
(***************************************************************************)
Step(fn, arg, io, wrote, called, alerted, kept) ==
    [fn |-> fn, arg |-> arg, io |-> io, wrote |-> wrote, called |-> called,
     alerted |-> alerted, kept |-> kept]

UserHandlers ==
    {"UI.switchView", "decode", "photo", "UI.saveRecipe.click",
     "UI.confirmDelete.click", "btn-save-settings.click",
     "UI.showPasscodeModal", "UI.hidePasscodeModal", "UI.validatePasscode"}

PullInFlight ==
    syncPc \in {"fetching", "saving"} \/ settingsPc = "fetching"

Quiescent ==
    /\ initPc \in {"ready", "failed"}
    /\ txq = <<>> /\ net = {} /\ upload = NoUpload
    /\ ~PullInFlight

(***************************************************************************)
(* Spec: the application from the load of the page.                        *)
(***************************************************************************)
MaxOps == 2

LocalA == Stamp(Recipe("A", "x", "", Null), 1)
LocalC == Stamp(Recipe("C", "z", "", DataImage), 0)
RemoteA(date) == Stamp(Recipe("A", "y", "n", UrlImage), date)
RemoteB == Stamp(Recipe("B", "w", "", Null), 1)

LocalInits == {{}, {LocalA}, {LocalA, LocalC}}
RemoteInits == {{}, {RemoteA(MaxClock)}, {RemoteA(0), RemoteB}}

FullSettings ==
    [fbApiKey |-> "key", fbProjectId |-> "proj", fbAppId |-> "app",
     fbUserId |-> "u1", cloudName |-> "x"]

\* Settings saved by the form with the user id left empty.
PartialSettings ==
    [fbApiKey |-> "key", fbProjectId |-> "proj", fbAppId |-> "app",
     fbUserId |-> "", cloudName |-> "x"]

SettingsInits == {NoSettings, PartialSettings, FullSettings}
RemoteSettingsInits ==
    {NoDoc, [cloudName |-> "y", uploadPreset |-> "ps"], [fbUserId |-> "u2"]}

\* What the stores hold when the page is loaded: every pair of record sets
\* with no remote settings, and every remote settings document with one
\* pair of record sets.
StartCases ==
    {<<l, r, NoDoc>> : l \in LocalInits, r \in RemoteInits}
        \cup {<<{LocalA}, {}, d>> : d \in RemoteSettingsInits}

Init ==
    /\ now = 1
    /\ settings \in SettingsInits /\ settings0 = settings
    /\ \E c \in StartCases :
           /\ local = c[1] /\ remote = c[2] /\ remoteSettings = c[3]
           /\ settings # FullSettings => c[2] = {} /\ c[3] = NoDoc
    /\ local0 = local /\ remote0 = remote
    /\ userSaved = [key \in Keys |-> NoRecord]
    /\ modal = ModalHidden /\ nameField = "" /\ writes = NoWrites
    /\ syncing = FALSE /\ recentList = <<>> /\ fullList = <<>>
    /\ txq = <<>>
    /\ calls = 0 /\ lastWrite = [key \in ClientKeys |-> NoWrite]
    /\ got = NoRequest
    /\ net = {}
    /\ cloud = NoCloud
    /\ initPc = "opening" /\ syncPc = "idle" /\ settingsPc = "idle"
    /\ view = "view-home" /\ detail = NoKey /\ barcodeField = NoKey
    /\ capturedImage = Null /\ scanner = ScannerIdle /\ upload = NoUpload
    /\ notesField = "" /\ ocr = OcrIdle
    /\ ops = 0 /\ mutated = FALSE /\ del = [key \in Keys |-> "none"]
    /\ last = NoStep

\* Whether a handler left the stores, the pending requests and the active
\* view as they were.
Kept ==
    /\ local' = local /\ txq' = txq /\ net' = net /\ upload' = upload
    /\ remote' = remote /\ settings' = settings /\ view' = view

\* Whether a step of a startup pull left the object store, the stored
\* settings, UI.cloud and the active view as they were.
LeftAlone ==
    /\ local' = local /\ txq' = txq /\ settings' = settings
    /\ cloud' = cloud /\ view' = view /\ remote' = remote

\* UI.init (lines 871-883) from the settling of store.init(): on failure the
\* promise of UI.init rejects and nothing else runs.  On success initCloud,
\* setupEventListeners, and, with a CloudStore, syncWithCloud and
\* syncSettingsWithCloud up to their first await (lines 1229 and 1246).  With
\* db null getAllRecipes returns [] and getSettings null at once, so both
\* pulls end within the same task.
UI_init ==
    \E io \in BOOLEAN, db \in BOOLEAN :
        LET c == IF io THEN InitCloud(settings, db) ELSE NoCloud
        IN /\ initPc = "opening"
           /\ initPc' = IF io THEN "ready" ELSE "failed"
           /\ cloud' = c
           /\ net' = net \cup Sent(c, {[op |-> "getAllRecipes"],
                                       [op |-> "getSettings"]})
           /\ syncPc' = IF c = NoCloud THEN "idle"
                        ELSE IF CloudUsable(c) THEN "fetching" ELSE "done"
           /\ settingsPc' = IF c = NoCloud THEN "idle"
                            ELSE IF CloudUsable(c) THEN "fetching" ELSE "done"
           /\ syncing' = SyncingAfter(syncPc')
           /\ UNCHANGED <<storeVars, clientVars, remote, remoteSettings,
                          settings, view, detail, barcodeField, capturedImage,
                          scanner, upload, ops, mutated, del, local0,
                          settings0, remote0,
                          recentList, fullList, userSaved, modal, nameField,
                          writes, entryVars>>
           /\ last' = Step("UI.init", NoKey, io, "none", {}, {}, Kept)

\* UI.syncWithCloud (lines 1228-1239) from the settling of getAllRecipes: the
\* loop saves the first record and waits; an empty list ends the pull; a
\* rejection is logged.
Sync_fetched ==
    \E ok \in BOOLEAN :
        LET cloudRecipes == PullList(remote, local)
        IN /\ [op |-> "getAllRecipes"] \in net
           /\ net' = net \ {[op |-> "getAllRecipes"]}
           /\ IF ok /\ cloudRecipes # <<>>
              THEN /\ txq' = Append(txq, SaveRecipeTx(Head(cloudRecipes),
                             [fn |-> "UI.syncWithCloud",
                              rest |-> Tail(cloudRecipes)]))
                   /\ syncPc' = "saving"
              ELSE /\ txq' = txq
                   /\ syncPc' = IF ok THEN "done" ELSE "failed"
           /\ syncing' = SyncingAfter(syncPc')
           /\ UNCHANGED <<now, local, clientVars, remote, remoteSettings,
                          settings, cloud, initPc, settingsPc, view, detail,
                          barcodeField, capturedImage, scanner, upload, ops,
                          mutated, del, local0, settings0, remote0,
                          recentList, fullList, userSaved,
                          modal, nameField, writes, entryVars>>
           /\ last' = Step("UI.syncWithCloud.fetched", NoKey, ok, "none", {},
                           PullFailureNotice(ok), LeftAlone)

\* UI.syncWithCloud (lines 1230-1239) from the settling of store.saveRecipe:
\* the next record is saved, or the pull ends; a rejection ends it in the
\* catch.  No CloudStore call is made.
Sync_afterPut ==
    \E io \in BOOLEAN :
        /\ txq # <<>>
        /\ Head(txq).k.fn = "UI.syncWithCloud"
        /\ LET tx == Head(txq)
           IN /\ local' = ApplyTx(local, tx, io)
              /\ IF io /\ tx.k.rest # <<>>
                 THEN /\ txq' = Append(Tail(txq), SaveRecipeTx(Head(tx.k.rest),
                                [fn |-> "UI.syncWithCloud",
                                 rest |-> Tail(tx.k.rest)]))
                      /\ syncPc' = "saving"
                 ELSE /\ txq' = Tail(txq)
                      /\ syncPc' = IF io THEN "done" ELSE "aborted"
              /\ syncing' = SyncingAfter(syncPc')
              /\ UNCHANGED <<now, clientVars, remote, remoteSettings, net,
                             settings, cloud, initPc, settingsPc, view, detail,
                             barcodeField, capturedImage, scanner, upload,
                             ops, mutated, del, local0, settings0, remote0,
                             recentList, fullList,
                             userSaved, modal, nameField, writes, entryVars>>
              /\ last' = Step("UI.syncWithCloud", tx.arg, io,
                              IF io THEN "put" ELSE "none", {}, {}, Kept)

\* UI.syncSettingsWithCloud (lines 1245-1259) from the settling of
\* getSettings: remote settings are merged into the local ones and saved;
\* no CloudStore call is made and UI.cloud is left as it is.
SettingsSync_fetched ==
    \E ok \in BOOLEAN :
        LET merge == ok /\ remoteSettings # NoDoc
        IN /\ [op |-> "getSettings"] \in net
           /\ net' = net \ {[op |-> "getSettings"]}
           /\ settings' = IF merge
                          THEN MergeSettings(settings, remoteSettings)
                          ELSE settings
           /\ settingsPc' = IF ok THEN "done" ELSE "failed"
           /\ UNCHANGED <<storeVars, clientVars, remote, remoteSettings, cloud,
                          initPc, syncPc, view, detail, barcodeField,
                          capturedImage, scanner, upload, ops, mutated, del,
                          local0, settings0, auxVars, entryVars>>
           /\ last' = Step("UI.syncSettingsWithCloud",
                           IF merge THEN settings' ELSE NoDoc, ok,
                           IF merge THEN "settings" ELSE "none", {},
                           PullFailureNotice(ok), LeftAlone)

\* UI.switchView (lines 1010-1027) from a navigation button (lines 925-934):
\* the scanner is started for the scanner view and stopped for any other.
Navigate ==
    \E target \in {"view-home", "view-scanner"} :
        /\ initPc = "ready"
        /\ ops < MaxOps /\ ops' = ops + 1
        /\ view' = target
        /\ scanner' = SwitchView(scanner, target)
        /\ UNCHANGED <<storeVars, clientVars, remote, remoteSettings, net,
                       settings, cloud, initPc, syncPc, settingsPc, detail,
                       barcodeField, capturedImage, upload, mutated, del,
                       local0, settings0, auxVars, entryVars>>
        /\ last' = Step("UI.switchView", NoKey, TRUE, "none", {}, {}, Kept)

\* The click on btn-settings (lines 962-964): showPasscodeModal (lines
\* 1281-1290) empties the input, hides the error and shows the modal.
ShowPasscodeModal ==
    /\ initPc = "ready"
    /\ ops < MaxOps /\ ops' = ops + 1
    /\ modal' = [modal EXCEPT !.open = TRUE, !.error = FALSE, !.input = ""]
    /\ UNCHANGED <<storeVars, clientVars, remote, remoteSettings, net,
                   settings, cloud, initPc, syncPc, settingsPc, view, detail,
                   barcodeField, capturedImage, scanner, upload, mutated, del,
                   local0, settings0, remote0,
                   recentList, fullList, userSaved, nameField, writes,
                   syncing, entryVars>>
    /\ last' = Step("UI.showPasscodeModal", NoKey, TRUE, "none", {}, {}, Kept)

\* The click on btn-modal-cancel or on the backdrop of the modal (lines
\* 967-970): hidePasscodeModal (lines 1292-1294) hides the modal.
HidePasscodeModal ==
    /\ initPc = "ready"
    /\ modal.open
    /\ modal' = [modal EXCEPT !.open = FALSE]
    /\ UNCHANGED <<storeVars, clientVars, remote, remoteSettings, net,
                   settings, cloud, initPc, syncPc, settingsPc, view, detail,
                   barcodeField, capturedImage, scanner, upload, ops, mutated,
                   del, local0, settings0, remote0,
                   recentList, fullList, userSaved, nameField,
                   writes, syncing, entryVars>>
    /\ last' = Step("UI.hidePasscodeModal", NoKey, TRUE, "none", {}, {}, Kept)

\* validatePasscode (lines 1296-1307) from the click on btn-modal-unlock or
\* the Enter key in the input (lines 972-975), with what the user has typed:
\* the right passcode hides the modal and opens the settings view, anything
\* else shows the error and empties the input.
ValidatePasscode ==
    \E typed \in {Passcode, "7700", ""} :
        /\ initPc = "ready"
        /\ modal.open
        /\ IF PasscodeOk(typed)
           THEN /\ modal' = [modal EXCEPT !.open = FALSE, !.input = typed,
                                          !.unlocked = @ \/ typed = Passcode]
                /\ view' = "view-settings"
                /\ scanner' = SwitchView(scanner, "view-settings")
           ELSE /\ modal' = [modal EXCEPT !.error = TRUE, !.input = ""]
                /\ UNCHANGED <<view, scanner>>
        /\ UNCHANGED <<storeVars, clientVars, remote, remoteSettings, net,
                       settings, cloud, initPc, syncPc, settingsPc, detail,
                       barcodeField, capturedImage, upload, ops, mutated, del,
                       local0, settings0, remote0,
                       recentList, fullList, userSaved, nameField,
                       writes, syncing, entryVars>>
        /\ last' = Step("UI.validatePasscode", typed, TRUE, "none", {}, {},
                        Kept)

\* BarcodeScanner.start (lines 811-813) from the settling of getUserMedia:
\* with the permission the cameras are asked for; a rejection is caught and
\* shown (lines 835-842); the active view stays as it is.
Scanner_permission ==
    \E err \in {"none", "NotAllowedError", "NotReadableError"} :
        /\ scanner.perm > 0
        /\ scanner' = IF err = "none"
                      THEN [scanner EXCEPT !.perm = @ - 1, !.enum = @ + 1]
                      ELSE [scanner EXCEPT !.perm = @ - 1]
        /\ UNCHANGED <<storeVars, clientVars, remote, remoteSettings, net,
                       settings, cloud, initPc, syncPc, settingsPc, view,
                       detail, barcodeField, capturedImage, upload, ops,
                       mutated, del, local0, settings0, auxVars, entryVars>>
        /\ last' = Step("BarcodeScanner.start", "getUserMedia", err = "none",
                        "none", {},
                        IF err = "none" THEN {}
                        ELSE IF err = "NotAllowedError"
                        THEN {"Camera access denied."}
                        ELSE {"Could not start camera."}, Kept)

\* BarcodeScanner.start (lines 813-834) from the settling of getCameras: with
\* a camera scanner.start is called; Html5Qrcode may refuse it when the
\* scanner is not idle, and the error is caught; without a camera the alert
\* of line 833; a rejection of getCameras is caught.
Scanner_cameras ==
    \E cameras \in {"some", "none", "error"}, accepted \in BOOLEAN :
        LET starts == cameras = "some" /\ (scanner.cam = "idle" \/ accepted)
        IN /\ scanner.enum > 0
           /\ scanner' = IF starts
                         THEN [scanner EXCEPT !.enum = @ - 1, !.cam = "starting"]
                         ELSE [scanner EXCEPT !.enum = @ - 1]
           /\ UNCHANGED <<storeVars, clientVars, remote, remoteSettings, net,
                          settings, cloud, initPc, syncPc, settingsPc, view,
                          detail, barcodeField, capturedImage, upload, ops,
                          mutated, del, local0, settings0, auxVars, entryVars>>
           /\ last' = Step("BarcodeScanner.start", "getCameras", starts,
                           "none", {},
                           IF starts THEN {}
                           ELSE IF cameras = "none" THEN {"No cameras found."}
                           ELSE {"Could not start camera."}, Kept)

\* BarcodeScanner.start (lines 824-842) from the settling of scanner.start:
\* the camera streams and decodes are delivered, or the rejection is caught.
Scanner_started ==
    \E ok \in BOOLEAN :
        /\ scanner.cam = "starting"
        /\ scanner' = [scanner EXCEPT !.cam = IF ok THEN "scanning" ELSE "idle",
                                      !.passed = 0]
        /\ UNCHANGED <<storeVars, clientVars, remote, remoteSettings, net,
                       settings, cloud, initPc, syncPc, settingsPc, view,
                       detail, barcodeField, capturedImage, upload, ops,
                       mutated, del, local0, settings0, auxVars, entryVars>>
        /\ last' = Step("BarcodeScanner.start", "scanner.start", ok, "none",
                        {}, IF ok THEN {} ELSE {"Could not start camera."},
                        Kept)

\* BarcodeScanner.stop (line 847) from the settling of scanner.stop: the
\* camera is released.
Scanner_stopped ==
    /\ scanner.cam = "stopping"
    /\ scanner' = [scanner EXCEPT !.cam = "idle"]
    /\ UNCHANGED <<storeVars, clientVars, remote, remoteSettings, net,
                   settings, cloud, initPc, syncPc, settingsPc, view, detail,
                   barcodeField, capturedImage, upload, ops, mutated, del,
                   local0, settings0, auxVars, entryVars>>
    /\ last' = Step("BarcodeScanner.stop", "scanner.stop", TRUE, "none", {},
                    {}, Kept)

\* The decode callback (lines 827-830): the scanner is stopped and
\* UI.handleScanResult (line 1031) asks RecipeStore for the barcode.  passed
\* counts the values handed to onResult since scanner.start succeeded.
Decode ==
    \E barcode \in Keys :
        /\ initPc = "ready"
        /\ scanner.cam = "scanning"
        /\ txq' = Append(txq, GetRecipeTx(barcode, [fn |-> "UI.handleScanResult"]))
        /\ scanner' = [ScannerStop(scanner) EXCEPT !.decoded = TRUE,
                                                   !.passed = @ + 1]
        /\ UNCHANGED <<now, local, clientVars, remote, remoteSettings, net,
                       settings, cloud, initPc, syncPc, settingsPc, view,
                       detail, barcodeField, capturedImage, upload, ops,
                       mutated, del, local0, settings0, auxVars, entryVars>>
        /\ last' = Step("decode", barcode, TRUE, "none", {}, {}, Kept)

\* The decode callback (lines 827-830) run once more: the function handed to
\* scanner.start holds no flag of its own, so it runs for every decode
\* Html5Qrcode delivers, and the stop it asked for at the first decode settles
\* later.  BarcodeScanner.stop runs again and UI.handleScanResult is given
\* the value.
Decode_again ==
    \E barcode \in Keys :
        /\ initPc = "ready"
        /\ scanner.cam = "stopping"
        /\ scanner.passed \in 1..(MaxDecodes - 1)
        /\ txq' = Append(txq, GetRecipeTx(barcode, [fn |-> "UI.handleScanResult"]))
        /\ scanner' = [ScannerStop(scanner) EXCEPT !.passed = @ + 1]
        /\ UNCHANGED <<now, local, clientVars, remote, remoteSettings, net,
                       settings, cloud, initPc, syncPc, settingsPc, view,
                       detail, barcodeField, capturedImage, upload, ops,
                       mutated, del, local0, settings0, auxVars, entryVars>>
        /\ last' = Step("decode", barcode, TRUE, "none", {}, {}, Kept)

\* UI.handleScanResult (lines 1032-1042) from the settling of getRecipe: an
\* existing recipe is shown (showRecipeDetail, lines 1262-1279), otherwise the
\* entry form is reset for the barcode.  A rejection is not caught.
HandleScan_afterGet ==
    \E io \in BOOLEAN :
        /\ txq # <<>>
        /\ Head(txq).k.fn = "UI.handleScanResult"
        /\ LET tx == Head(txq)
               existing == Settle(local, tx, io)
           IN /\ txq' = Tail(txq)
              /\ IF existing.outcome = "rejected"
                 THEN UNCHANGED <<view, detail, barcodeField, capturedImage,
                                  notesField, nameField, scanner>>
                 ELSE IF Existing(existing.result)
                 THEN /\ detail' = tx.arg
                      /\ view' = "view-recipe-detail"
                      /\ scanner' = SwitchView(scanner, "view-recipe-detail")
                      /\ UNCHANGED <<barcodeField, capturedImage, notesField,
                                     nameField>>
                 ELSE /\ barcodeField' = tx.arg
                      /\ nameField' = ""
                      /\ notesField' = ""
                      /\ capturedImage' = Null
                      /\ view' = "view-recipe-entry"
                      /\ scanner' = SwitchView(scanner, "view-recipe-entry")
                      /\ UNCHANGED detail
              /\ UNCHANGED <<now, local, clientVars, remote, remoteSettings,
                             net, settings, cloud, initPc, syncPc, settingsPc,
                             upload, ops, mutated, del, local0, settings0,
                             remote0,
                             recentList, fullList, userSaved, modal, writes, syncing,
                             ocr>>
              /\ last' = Step("UI.handleScanResult", tx.arg, io, "none", {},
                              {}, Kept)

\* reader.onload of the photo input (lines 946-950): the image is kept and
\* the extract button enabled.
PhotoLoaded ==
    /\ initPc = "ready"
    /\ view = "view-recipe-entry"
    /\ capturedImage = Null
    /\ capturedImage' = DataImage
    /\ ocr' = [ocr EXCEPT !.disabled = FALSE]
    /\ UNCHANGED <<storeVars, clientVars, remote, remoteSettings, net,
                   settings, cloud, initPc, syncPc, settingsPc, view, detail,
                   barcodeField, notesField, scanner, upload, ops, mutated,
                   del, local0, settings0, auxVars>>
    /\ last' = Step("photo", NoKey, TRUE, "none", {}, {}, Kept)

\* The user types into the notes field.
NotesTyped ==
    /\ initPc = "ready"
    /\ view = "view-recipe-entry"
    /\ notesField = ""
    /\ notesField' = "n"
    /\ UNCHANGED <<storeVars, clientVars, remote, remoteSettings, net,
                   settings, cloud, initPc, syncPc, settingsPc, view, detail,
                   barcodeField, capturedImage, ocr, scanner, upload, ops,
                   mutated, del, local0, settings0, auxVars>>
    /\ last' = Step("notes", NoKey, TRUE, "none", {}, {}, Kept)

\* UI.extractText (lines 1112-1122) from the click on the extract button up
\* to await Tesseract.recognize: the loader is shown and the button
\* disabled.  The image handed to Tesseract is the one captured for the
\* entry on screen; at most MaxOps runs are in flight.
ExtractText_click ==
    /\ initPc = "ready"
    /\ view = "view-recipe-entry"
    /\ capturedImage # Null /\ ~ocr.disabled
    /\ Len(ocr.running) < MaxOps
    /\ ocr' = [running |-> Append(ocr.running, barcodeField), loader |-> TRUE,
               disabled |-> TRUE]
    /\ UNCHANGED <<storeVars, clientVars, remote, remoteSettings, net,
                   settings, cloud, initPc, syncPc, settingsPc, view, detail,
                   barcodeField, capturedImage, notesField, scanner, upload,
                   ops, mutated, del, local0, settings0, auxVars>>
    /\ last' = Step("UI.extractText.click", NoKey, TRUE, "none", {}, {}, Kept)

\* UI.extractText (lines 1122-1132) from the settling of Tesseract.recognize:
\* the text is written into the notes field, or the failure is shown; in
\* both cases the loader is hidden and the button enabled.
ExtractText_settled ==
    \E ok \in BOOLEAN, run \in 1..Len(ocr.running) :
        /\ notesField' = IF ok THEN OcrText(ocr.running[run]) ELSE notesField
        /\ ocr' = [running |-> [i \in 1..(Len(ocr.running) - 1) |->
                                  IF i < run THEN ocr.running[i]
                                  ELSE ocr.running[i + 1]],
                   loader |-> FALSE, disabled |-> FALSE]
        /\ UNCHANGED <<storeVars, clientVars, remote, remoteSettings, net,
                       settings, cloud, initPc, syncPc, settingsPc, view,
                       detail, barcodeField, capturedImage, scanner, upload,
                       ops, mutated, del, local0, settings0, auxVars>>
        /\ last' = Step("UI.extractText", NoKey, ok, "none", {},
                        IF ok THEN {}
                        ELSE {"Failed to extract text from image."},
                        Kept /\ notesField' = notesField)

\* UI.saveRecipe (lines 1045-1081) from the click on the save button up to the
\* first await: the upload (line 1063) or store.saveRecipe (line 1081).  The
\* button is disabled while an upload is in flight (line 1060).  The barcode
\* is the one handleScanResult wrote into the form and the instructions are
\* the value of the notes field; the name is what the user has typed.
SaveRecipe_click ==
    \E name \in {"", "u"}, instructions \in {notesField} :
        LET recipe == Recipe(barcodeField, name, instructions, capturedImage)
            valid == NameGiven(name)
            uploads == valid /\ UploadWanted(settings, capturedImage)
        IN /\ initPc = "ready"
           /\ view = "view-recipe-entry"
           /\ upload = NoUpload
           /\ ops < MaxOps /\ ops' = ops + 1
           /\ upload' = IF uploads THEN recipe ELSE upload
           /\ txq' = IF valid /\ ~uploads
                     THEN Append(txq, SaveRecipeTx(recipe,
                              [fn |-> "UI.saveRecipe"]))
                     ELSE txq
           /\ mutated' = (mutated \/ valid)
           /\ del' = IF valid THEN [del EXCEPT ![barcodeField] = "none"]
                     ELSE del
           /\ nameField' = name
           /\ UNCHANGED <<now, local, clientVars, remote, remoteSettings, net,
                          settings, cloud, initPc, syncPc, settingsPc, view,
                          detail, barcodeField, capturedImage, scanner,
                          local0, settings0, remote0,
                          recentList, fullList, userSaved, modal,
                          writes, syncing, entryVars>>
           /\ last' = Step("UI.saveRecipe.click", recipe, TRUE, "none", {},
                           IF valid THEN {} ELSE {"Please enter a name"}, Kept)

\* UI.saveRecipe (lines 1063-1081) from the settling of uploadToCloudinary:
\* the image is the uploaded URL, or the captured one after a failure; then
\* store.saveRecipe.
SaveRecipe_uploaded ==
    \E ok \in BOOLEAN :
        /\ upload # NoUpload
        /\ LET recipe == [upload EXCEPT !.image = UploadedImage(ok, @)]
           IN /\ txq' = Append(txq, SaveRecipeTx(recipe,
                                        [fn |-> "UI.saveRecipe"]))
              /\ upload' = NoUpload
              /\ UNCHANGED <<now, local, clientVars, remote, remoteSettings,
                             net, settings, cloud, initPc, syncPc, settingsPc,
                             view, detail, barcodeField, capturedImage,
                             scanner, ops, mutated, del, local0, settings0,
                             auxVars, entryVars>>
              /\ last' = Step("UI.saveRecipe.uploaded", recipe, ok, "none", {},
                              IF ok THEN {}
                              ELSE {"Cloudinary upload failed. Saving image locally instead."},
                              Kept)

\* UI.saveRecipe (lines 1081-1094) from the settling of store.saveRecipe: the
\* mirror call is made and not awaited, the notice is shown and the home view
\* opened; a rejection shows the error.
SaveRecipe_afterPut ==
    \E io \in BOOLEAN :
        /\ txq # <<>>
        /\ Head(txq).k.fn = "UI.saveRecipe"
        /\ LET tx == Head(txq)
               called ==
                   IF io
                   THEN MirrorCalls(cloud, [op |-> "saveRecipe", arg |-> tx.arg])
                   ELSE {}
           IN /\ local' = ApplyTx(local, tx, io)
              /\ txq' = Tail(txq)
              /\ net' = net \cup Sent(cloud, called)
              /\ view' = IF io THEN "view-home" ELSE view
              /\ scanner' = IF io THEN SwitchView(scanner, "view-home")
                            ELSE scanner
              /\ userSaved' = IF io
                               THEN [userSaved EXCEPT ![tx.arg.barcode] = tx.arg]
                               ELSE userSaved
              /\ UNCHANGED <<now, clientVars, remote, remoteSettings, settings,
                             cloud, initPc, syncPc, settingsPc, detail,
                             barcodeField, capturedImage, upload, ops, mutated,
                             del, local0, settings0, remote0,
                             recentList, fullList, modal,
                             nameField, writes, syncing, entryVars>>
              /\ last' = Step("UI.saveRecipe", tx.arg, io,
                              IF io THEN "put" ELSE "none", called,
                              IF io THEN {"Recipe saved!"}
                              ELSE {"Error saving recipe"}, Kept)

\* UI.confirmDelete (lines 1196-1199) from the delete button of a recipe card
\* of the home view or of the detail view, the user confirming.
ConfirmDelete_click ==
    \E key \in Keys :
        /\ initPc = "ready"
        /\ ops < MaxOps /\ ops' = ops + 1
        /\ IF view = "view-recipe-detail" THEN detail = key
           ELSE view = "view-home" /\ HasKey(local, key)
        /\ txq' = Append(txq, DeleteRecipeTx(key, [fn |-> "UI.confirmDelete"]))
        /\ mutated' = TRUE
        /\ del' = [del EXCEPT ![key] = "clicked"]
        /\ UNCHANGED <<now, local, clientVars, remote, remoteSettings, net,
                       settings, cloud, initPc, syncPc, settingsPc, view,
                       detail, barcodeField, capturedImage, scanner, upload,
                       local0, settings0, auxVars, entryVars>>
        /\ last' = Step("UI.confirmDelete.click", key, TRUE, "none", {}, {},
                        Kept)

\* UI.confirmDelete (lines 1199-1218) from the settling of store.deleteRecipe:
\* the mirror call is made and not awaited; the detail view gives way to the
\* home view; a rejection shows the error.
ConfirmDelete_afterDelete ==
    \E io \in BOOLEAN :
        /\ txq # <<>>
        /\ Head(txq).k.fn = "UI.confirmDelete"
        /\ LET tx == Head(txq)
               called ==
                   IF io
                   THEN MirrorCalls(cloud, [op |-> "deleteRecipe", arg |-> tx.arg])
                   ELSE {}
               leaves == io /\ view = "view-recipe-detail"
           IN /\ local' = ApplyTx(local, tx, io)
              /\ txq' = Tail(txq)
              /\ net' = net \cup Sent(cloud, called)
              /\ view' = IF leaves THEN "view-home" ELSE view
              /\ scanner' = IF leaves THEN SwitchView(scanner, "view-home")
                            ELSE scanner
              /\ del' = IF io /\ del[tx.arg] = "clicked"
                        THEN [del EXCEPT ![tx.arg] = "local"] ELSE del
              /\ userSaved' = IF io
                               THEN [userSaved EXCEPT ![tx.arg] = NoRecord]
                               ELSE userSaved
              /\ UNCHANGED <<now, clientVars, remote, remoteSettings, settings,
                             cloud, initPc, syncPc, settingsPc, detail,
                             barcodeField, capturedImage, upload, ops, mutated,
                             local0, settings0, remote0,
                             recentList, fullList, modal, nameField,
                             writes, syncing, entryVars>>
              /\ last' = Step("UI.confirmDelete", tx.arg, io,
                              IF io THEN "delete" ELSE "none", called,
                              IF io THEN {} ELSE {"Failed to delete recipe."},
                              Kept)

\* The identifiers the click handler of btn-save-settings declares (lines
\* 978-990) and the ones its object literal newSettings reads (lines
\* 991-995): fbUserId is read and declared nowhere.
FormDeclared ==
    {"cloudName", "cloudinaryApiKey", "uploadPreset", "cloudinaryApiSecret",
     "fbApiKey", "fbProjectId", "fbAuthDomain", "fbStorageBucket",
     "fbMessagingSenderId", "fbAppId", "fbMeasurementId"}

FormRead == FormDeclared \cup {"fbUserId"}

\* What the user has typed into the settings form.
FormInputs ==
    {[fbApiKey |-> "key", fbProjectId |-> "proj", fbAppId |-> "app",
      fbUserId |-> "u3", cloudName |-> "z"]}

\* The click handler of btn-save-settings (lines 977-1004).  Reading an
\* identifier that is not declared throws a ReferenceError, which ends the
\* handler before Settings.save (line 996); otherwise the settings are
\* saved, initCloud runs, the settings are mirrored, the notice is shown and
\* the home view opened.
SaveSettings_click ==
    \E form \in FormInputs, db \in BOOLEAN :
        LET throws == ~(FormRead \subseteq FormDeclared)
            newSettings == [f \in DOMAIN form \cap FormRead |-> form[f]]
            c == IF throws THEN cloud ELSE InitCloud(newSettings, db)
            called == IF throws THEN {}
                      ELSE MirrorCalls(c, [op |-> "saveSettings",
                                           arg |-> newSettings])
        IN /\ initPc = "ready"
           /\ view = "view-settings"
           /\ ops < MaxOps /\ ops' = ops + 1
           /\ settings' = IF throws THEN settings ELSE newSettings
           /\ cloud' = c
           /\ net' = net \cup Sent(c, called)
           /\ view' = IF throws THEN view ELSE "view-home"
           /\ scanner' = IF throws THEN scanner
                         ELSE SwitchView(scanner, "view-home")
           /\ UNCHANGED <<storeVars, clientVars, remote, remoteSettings,
                          initPc, syncPc, settingsPc, detail, barcodeField,
                          capturedImage, upload, mutated, del, local0,
                          settings0, auxVars, entryVars>>
           /\ last' = Step("btn-save-settings.click", form, ~throws,
                           IF throws THEN "none" ELSE "settings", called,
                           IF throws THEN {} ELSE {"Settings saved!"}, Kept)

\* A mirror call settles (CloudStore.saveRecipe, lines 697-701, and
\* CloudStore.deleteRecipe, lines 703-707): the document is written or
\* deleted, or the call rejects and the rejection is logged.
Mirror_settled ==
    \E call \in net, ok \in BOOLEAN :
        /\ call.op \in {"saveRecipe", "deleteRecipe"}
        /\ net' = net \ {call}
        /\ remote' = IF ~ok THEN remote
                     ELSE IF call.op = "saveRecipe"
                     THEN SetDoc(remote, call.arg)
                     ELSE DeleteDoc(remote, call.arg)
        /\ del' = IF ok /\ call.op = "deleteRecipe" /\ del[call.arg] = "local"
                  THEN [del EXCEPT ![call.arg] = "both"] ELSE del
        /\ UNCHANGED <<storeVars, clientVars, remoteSettings, settings, cloud,
                       initPc, syncPc, settingsPc, view, detail, barcodeField,
                       capturedImage, scanner, upload, ops, mutated, local0,
                       settings0, auxVars, entryVars>>
        /\ last' = Step("mirror", call, ok, "none", {},
                        IF ok THEN {} ELSE MirrorFailureNotice(call.op),
                        local' = local /\ view' = view)

Next ==
    \/ UI_init \/ Sync_fetched \/ Sync_afterPut \/ SettingsSync_fetched
    \/ Navigate \/ Scanner_permission \/ Scanner_cameras \/ Scanner_started
    \/ Scanner_stopped \/ Decode \/ HandleScan_afterGet \/ PhotoLoaded
    \/ NotesTyped \/ ExtractText_click \/ ExtractText_settled
    \/ SaveRecipe_click \/ SaveRecipe_uploaded \/ SaveRecipe_afterPut
    \/ ConfirmDelete_click \/ ConfirmDelete_afterDelete \/ SaveSettings_click
    \/ Mirror_settled
    \/ ShowPasscodeModal \/ HidePasscodeModal \/ ValidatePasscode

Spec == Init /\ [][Next]_vars

(***************************************************************************)
(* The scanner and the entry form of an installation without cloud         *)
(* settings, with an Html5Qrcode that goes on delivering decodes until     *)
(* scanner.stop() has settled.                                             *)
(***************************************************************************)
ScanInit == Init /\ settings = NoSettings /\ local = {LocalA}

ScanNext ==
    \/ UI_init
    \/ Navigate
    \/ Scanner_permission
    \/ Scanner_cameras
    \/ Scanner_started
    \/ Scanner_stopped
    \/ Decode
    \/ Decode_again
    \/ HandleScan_afterGet
    \/ PhotoLoaded
    \/ NotesTyped
    \/ ExtractText_click
    \/ ExtractText_settled
    \/ SaveRecipe_click
    \/ SaveRecipe_afterPut
    \/ ConfirmDelete_click
    \/ ConfirmDelete_afterDelete
    \/ SaveSettings_click
    \/ ShowPasscodeModal
    \/ HidePasscodeModal
    \/ ValidatePasscode

ScanSpec == ScanInit /\ [][ScanNext]_vars

(***************************************************************************)
(* ListSpec: the two lists of recipe cards.  loadRecentRecipes and         *)
(* loadFullList are called without waiting for one another, next to saves  *)
(* and deletes of the session; each reads the object store in a            *)
(* transaction of its own and fills its list in the task in which the      *)
(* promise of getAllRecipes resolves.                                      *)
(***************************************************************************)
ListKeys == {"A", "B", "C", "D"}
ListKeyOrder == <<"A", "B", "C", "D">>

\* slice(0, 3) of line 1147.
RecentShown == 3

\* RecipeStore.getAllRecipes (lines 780-788).
GetAllTx(k) == [op |-> "getAll", arg |-> NoKey, k |-> k]

\* request.result of store.getAll(): every record, in the order of the keys.
RECURSIVE InKeyOrder(_, _)
InKeyOrder(store, keys) ==
    IF keys = <<>> THEN <<>>
    ELSE (IF HasKey(store, Head(keys))
          THEN <<CHOOSE r \in store : r.barcode = Head(keys)>>
          ELSE <<>>) \o InKeyOrder(store, Tail(keys))

StoreGetAll(store) == InKeyOrder(store, ListKeyOrder)

\* A comparator that orders by date, oldest first.
DateOrder_oldestFirst(a, b) == a.date - b.date

\* The comparator of line 1146: new Date(b.date) - new Date(a.date).
DateOrder(a, b) == b.date - a.date

\* Array.prototype.sort with the comparator DateOrder: a is put before b when
\* the comparator is negative, and records that compare equal keep their
\* order.
RECURSIVE InsertSorted(_, _)
InsertSorted(r, sorted) ==
    IF sorted = <<>> THEN <<r>>
    ELSE IF DateOrder(r, Head(sorted)) <= 0 THEN <<r>> \o sorted
    ELSE <<Head(sorted)>> \o InsertSorted(r, Tail(sorted))

RECURSIVE Sort(_)
Sort(recipes) ==
    IF recipes = <<>> THEN <<>>
    ELSE InsertSorted(Head(recipes), Sort(Tail(recipes)))

\* Array.prototype.slice(0, n).
Slice(recipes, n) ==
    SubSeq(recipes, 1, IF Len(recipes) < n THEN Len(recipes) ELSE n)

\* The cards loadRecentRecipes appends (lines 1146-1150); an empty store
\* leaves the placeholder and no card (lines 1140-1143).
RecentCards(recipes) == Slice(Sort(recipes), RecentShown)

\* The cards loadFullList appends (lines 1163-1165).
FullCards(recipes) == recipes

\* The object stores the page can be loaded with: every key is absent or
\* holds a record of some date.
ListStores ==
    {{Stamp(Recipe(key, "x", "", Null), dates[key]) :
          key \in {k \in ListKeys : dates[k] >= 0}} :
     dates \in [ListKeys -> -1..MaxClock]}

ListInit ==
    /\ AppAtRest
    /\ now = 0
    /\ local \in ListStores
    /\ txq = <<>>
    /\ calls = 0
    /\ lastWrite = [key \in ClientKeys |-> NoWrite]
    /\ got = NoRequest
    /\ writes = NoWrites

\* A run of the loader fn waits for its getAllRecipes.
LoadPending(fn) == \E i \in 1..Len(txq) : txq[i].k.fn = fn

\* UI.loadRecentRecipes (line 1136) up to await getAllRecipes.
LoadRecent_call ==
    /\ calls < MaxCalls
    /\ calls' = calls + 1
    /\ txq' = Append(txq, GetAllTx([fn |-> "UI.loadRecentRecipes",
                                    overlaps |->
                                        LoadPending("UI.loadRecentRecipes")]))
    /\ UNCHANGED <<now, local, lastWrite, got, appVars>>

\* UI.loadFullList (line 1154) up to await getAllRecipes.
LoadFull_call ==
    /\ calls < MaxCalls
    /\ calls' = calls + 1
    /\ txq' = Append(txq, GetAllTx([fn |-> "UI.loadFullList",
                                    overlaps |->
                                        LoadPending("UI.loadFullList")]))
    /\ UNCHANGED <<now, local, lastWrite, got, appVars>>

\* A save of the session next to the loads (UI.saveRecipe, line 1081): the
\* record of key "A" is put with the date of the call.
ListSave ==
    LET recipe == Recipe("A", "u", "", Null)
    IN /\ calls < MaxCalls
       /\ calls' = calls + 1
       /\ txq' = Append(txq, SaveRecipeTx(recipe,
                     [fn |-> "client", given |-> recipe, at |-> now]))
       /\ UNCHANGED <<now, local, lastWrite, got, appVars>>

\* A delete of the session next to the loads (UI.confirmDelete, line 1199):
\* the record of key "B" is deleted.
ListDelete ==
    /\ calls < MaxCalls
    /\ calls' = calls + 1
    /\ txq' = Append(txq, DeleteRecipeTx("B", [fn |-> "client"]))
    /\ UNCHANGED <<now, local, lastWrite, got, appVars>>

\* UI.loadRecentRecipes (lines 1137-1150) from the settling of
\* getAllRecipes: the list is emptied and the cards are appended, all in one
\* task; a rejection is not caught and leaves the list as it is.
LoadRecent_rendered ==
    \E io \in BOOLEAN :
        /\ txq # <<>>
        /\ txq[RunsNext(txq)].k.fn = "UI.loadRecentRecipes"
        /\ got' = [op |-> "getAll", fn |-> "UI.loadRecentRecipes", io |-> io,
                   overlaps |-> txq[RunsNext(txq)].k.overlaps]
        /\ recentList' = IF io THEN RecentCards(StoreGetAll(local))
                         ELSE recentList
        /\ txq' = Tail(txq)
        /\ UNCHANGED <<now, local, calls, lastWrite, remote, remoteSettings,
                       net, settings, cloud, initPc, syncPc, settingsPc, view,
                       detail, barcodeField, capturedImage, scanner, upload,
                       ops, mutated, del, local0, settings0, remote0,
                       fullList, userSaved, modal, nameField, writes, syncing,
                       entryVars, last>>

\* UI.loadFullList (lines 1155-1165) from the settling of getAllRecipes.
LoadFull_rendered ==
    \E io \in BOOLEAN :
        /\ txq # <<>>
        /\ txq[RunsNext(txq)].k.fn = "UI.loadFullList"
        /\ got' = [op |-> "getAll", fn |-> "UI.loadFullList", io |-> io,
                   overlaps |-> txq[RunsNext(txq)].k.overlaps]
        /\ fullList' = IF io THEN FullCards(StoreGetAll(local)) ELSE fullList
        /\ txq' = Tail(txq)
        /\ UNCHANGED <<now, local, calls, lastWrite, remote, remoteSettings,
                       net, settings, cloud, initPc, syncPc, settingsPc, view,
                       detail, barcodeField, capturedImage, scanner, upload,
                       ops, mutated, del, local0, settings0, remote0,
                       recentList, userSaved, modal, nameField, writes,
                       syncing, entryVars, last>>

ListNext ==
    \/ LoadRecent_call
    \/ LoadFull_call
    \/ LoadRecent_rendered
    \/ LoadFull_rendered
    \/ ListSave
    \/ ListDelete
    \/ ClientTxRun
    \/ Tick

ListSpec == ListInit /\ [][ListNext]_vars

(***************************************************************************)
(* Properties of the application (Spec).                                   *)
(***************************************************************************)
\* The local record r is the remote document d in every field but the date.
RemoteVersion(r, d) ==
    /\ DOMAIN r = DOMAIN d \cup {"date"}
    /\ \A f \in DOMAIN d \ {"date"} : r[f] = d[f]

\* The pull of records has ended without a failure, over a connected
\* CloudStore, and the user has started no save and no delete.
PullCompleted ==
    syncPc = "done" /\ CloudUsable(cloud) /\ ~mutated

\* C1: when the startup pull of records has run to completion without a
\* failure and without a user mutation, LocalStore holds for every key of
\* RemoteStore the remote version of the record (every field but the date),
\* for every key that only LocalStore had the unchanged local record, one
\* record per key and no other key, whatever the dates of the two versions.
C1_PullResult ==
    PullCompleted =>
        /\ \A d \in remote :
               \E r \in local : r.barcode = d.barcode /\ RemoteVersion(r, d)
        /\ \A r \in local0 : ~HasKey(remote, r.barcode) => r \in local
        /\ \A r \in local :
               \/ r \in local0 /\ ~HasKey(remote, r.barcode)
               \/ \E d \in remote : r.barcode = d.barcode /\ RemoteVersion(r, d)
        /\ \A r1, r2 \in local : r1.barcode = r2.barcode => r1 = r2

\* The pull has ended with RemoteStore {A, B} and LocalStore {A', C} at the
\* start, the remote A being the older one: LocalStore holds the remote A,
\* B, and the local C.
C1_Witness ==
    /\ PullCompleted
    /\ local0 = {LocalA, LocalC}
    /\ remote = {RemoteA(0), RemoteB}
    /\ \E r \in local : r.barcode = "A" /\ r.name = "y"
    /\ HasKey(local, "B") /\ LocalC \in local

\* C2: when the local put of UI.saveRecipe has succeeded the user sees the
\* success notice and the home view and LocalStore holds the record as put;
\* when the mirror call cloud.saveRecipe then rejects, nothing is shown and
\* LocalStore and the view stay as they are.
C2_MirrorFailureSilent ==
    /\ (last.fn = "UI.saveRecipe" /\ last.io)
          => /\ last.alerted = {"Recipe saved!"}
             /\ view = "view-home"
             /\ last.arg \in local
    /\ (last.fn = "mirror" /\ ~last.io /\ last.arg.op = "saveRecipe")
          => /\ last.alerted = {}
             /\ last.kept

\* The mirror call of a saved recipe has rejected, the record is in
\* LocalStore and the home view is shown.
C2_Witness ==
    /\ last.fn = "mirror" /\ ~last.io /\ last.arg.op = "saveRecipe"
    /\ last.arg.arg \in local
    /\ ~HasKey(remote, last.arg.arg.barcode)
    /\ view = "view-home"

\* The CloudStore call that carries the write of a step.
MirrorOf(step) ==
    IF step.wrote = "put" THEN [op |-> "saveRecipe", arg |-> step.arg]
    ELSE IF step.wrote = "delete" THEN [op |-> "deleteRecipe", arg |-> step.arg]
    ELSE [op |-> "saveSettings", arg |-> step.arg]

\* C3, as stated: while a CloudStore exists every step that writes a record
\* or the settings locally, the steps of the startup pulls included, makes
\* the CloudStore call with the same operation, key and payload.
C3_Original ==
    (last.fn # "none" /\ last.wrote # "none" /\ cloud # NoCloud)
        => MirrorOf(last) \in last.called

\* C3: while a CloudStore exists the local put of UI.saveRecipe and the local
\* delete of UI.confirmDelete are followed, in the same step, by the
\* CloudStore call with the same operation, key and payload, which is in
\* flight when the handler has ended; the puts of the startup pull of
\* records and the save of the startup settings merge make no CloudStore
\* call.
C3_UserWritesMirrored ==
    /\ (last.fn \in {"UI.saveRecipe", "UI.confirmDelete"}
            /\ last.wrote # "none" /\ cloud # NoCloud)
          => /\ last.called = {MirrorOf(last)}
             /\ CloudUsable(cloud) => MirrorOf(last) \in net
    /\ (last.fn \in {"UI.syncWithCloud", "UI.syncSettingsWithCloud"})
          => last.called = {}

\* UI.saveRecipe has put a recipe and its mirror call is in flight, and so
\* for a delete; and a put of the startup pull has been applied.
C3_Witness ==
    /\ last.fn = "UI.saveRecipe" /\ last.wrote = "put"
    /\ [op |-> "saveRecipe", arg |-> last.arg] \in net
    /\ last.arg \in local

\* C4, as stated: no user event handler runs while the startup pull of
\* records or of settings is still in flight.
C4_Original ==
    last.fn \in UserHandlers => ~PullInFlight

\* C5, as stated: once the local delete of key K and its mirror call have
\* both succeeded, no save of K was started after the delete and nothing is
\* in flight, K is in neither LocalStore nor RemoteStore.
C5_Original ==
    \A key \in Keys :
        (Quiescent /\ del[key] = "both")
            => ~HasKey(local, key) /\ ~HasKey(remote, key)

\* The settings pull has ended without a failure.
SettingsPullCompleted == settingsPc = "done"

\* C9: after the startup pull of settings, when remote settings exist the
\* stored Settings are the field-level union of the prior local settings and
\* the remote ones: the remote value for every remote field, the local value
\* for every field only local; when there are none the Settings are
\* unchanged.
C9_SettingsMerge ==
    /\ (SettingsPullCompleted /\ CloudUsable(cloud) /\ remoteSettings # NoDoc)
          => /\ DOMAIN settings = DOMAIN settings0 \cup DOMAIN remoteSettings
             /\ \A f \in DOMAIN remoteSettings : settings[f] = remoteSettings[f]
             /\ \A f \in DOMAIN settings0 \ DOMAIN remoteSettings :
                    settings[f] = settings0[f]
    /\ (SettingsPullCompleted /\ remoteSettings = NoDoc)
          => settings = settings0

\* The settings pull has merged remote settings that share cloudName with
\* the local ones and add uploadPreset.
C9_Witness ==
    /\ SettingsPullCompleted /\ CloudUsable(cloud)
    /\ remoteSettings # NoDoc
    /\ settings0.cloudName = "x" /\ settings.cloudName = "y"
    /\ settings.fbUserId = "u1"
    /\ "uploadPreset" \notin DOMAIN settings0 /\ settings.uploadPreset = "ps"

\* C10: a click on the save button with an empty name starts no LocalStore
\* write, no upload and no CloudStore call, leaves the entry view active
\* and shows the validation alert.
C10_EmptyNameRejected ==
    (last.fn = "UI.saveRecipe.click" /\ last.arg.name = "")
        => /\ last.kept
           /\ last.wrote = "none"
           /\ last.called = {}
           /\ last.alerted = {"Please enter a name"}
           /\ view = "view-recipe-entry"

\* The save button has been clicked with an empty name and a captured
\* photo, with the Cloudinary upload configured.
C10_Witness ==
    /\ last.fn = "UI.saveRecipe.click" /\ last.arg.name = ""
    /\ last.arg.image = DataImage
    /\ UploadWanted(settings, capturedImage)
    /\ txq = <<>> /\ upload = NoUpload

\* C11, as stated: when the scanner view has been left without a decode and
\* no asynchronous step is pending, the scanner holds no camera.
C11_Original ==
    (Quiescent /\ ScannerSettled /\ view # "view-scanner" /\ ~scanner.decoded)
        => scanner.cam = "idle"

\* C12, as stated: at no time is more than one acquisition of the camera
\* requested, under way or held.
C12_Original == Acquisitions(scanner) <= 1

\* C19, as stated: when a step of BarcodeScanner.start has failed a message
\* is shown, the scanner view is no longer the active view and the camera
\* is not held.
C19_Original ==
    (last.fn = "BarcodeScanner.start" /\ ~last.io)
        => /\ last.alerted # {}
           /\ view # "view-scanner"
           /\ scanner.cam = "idle"

\* The four connection fields are present and not empty.
Configured(s) ==
    \A f \in {"fbApiKey", "fbProjectId", "fbAppId", "fbUserId"} :
        f \in DOMAIN s /\ s[f] # ""

\* C13: after UI.initCloud has run in UI.init, UI.cloud is a CloudStore
\* exactly when the stored settings hold non-empty fbApiKey, fbProjectId,
\* fbAppId and fbUserId; when one of them is missing UI.cloud is null, no
\* pull is started and no CloudStore call is ever made or in flight.
C13_CloudIffConfigured ==
    /\ (last.fn = "UI.init" /\ last.io)
          => (cloud # NoCloud <=> Configured(settings))
    /\ ~Configured(settings0)
          => /\ cloud = NoCloud /\ net = {}
             /\ syncPc = "idle" /\ settingsPc = "idle"
             /\ last.fn # "none" => last.called = {}

\* With an empty fbUserId in the settings, UI.saveRecipe has put a recipe
\* and no CloudStore exists.
C13_Witness ==
    /\ settings0 = PartialSettings
    /\ last.fn = "UI.saveRecipe" /\ last.io
    /\ cloud = NoCloud /\ net = {}

\* C14, as stated: once the startup settings pull has saved the merged
\* settings and nothing is pending, UI.cloud exists exactly when the stored
\* settings hold the four connection fields, and it uses their user id.
C14_Original ==
    (settingsPc = "done" /\ Quiescent)
        => /\ cloud # NoCloud <=> Configured(settings)
           /\ cloud # NoCloud => cloud.userId = settings.fbUserId

\* C15, as stated: the click on the save button of the settings form stores
\* every value of the form, the user id included, as the local settings,
\* makes the settings mirror call when a CloudStore then exists, shows the
\* saved notice and opens the home view.
C15_Original ==
    last.fn = "btn-save-settings.click"
        => /\ \A f \in DOMAIN last.arg :
                  f \in DOMAIN settings /\ settings[f] = last.arg[f]
           /\ cloud # NoCloud
                  => [op |-> "saveSettings", arg |-> settings] \in last.called
           /\ last.alerted = {"Settings saved!"}
           /\ view = "view-home"

C17_Original ==
    (last.fn \in {"UI.saveRecipe", "UI.confirmDelete", "UI.handleScanResult"}
        /\ ~last.io)
        => /\ last.alerted # {}
           /\ last.wrote = "none"
           /\ last.called = {}

\* C18, as stated: when RecipeStore.init fails the failure is shown to the
\* user, no listener is installed and no CloudStore call is started.
C18_Original ==
    initPc = "failed"
        => /\ last.fn = "UI.init" /\ last.alerted # {}
           /\ cloud = NoCloud /\ net = {}
           /\ syncPc = "idle" /\ settingsPc = "idle"

\* The put that store.saveRecipe(recipe) has queued last.
QueuedPut(recipe) ==
    /\ txq # <<>>
    /\ LET tx == txq[Len(txq)]
       IN /\ tx.op = "put" /\ tx.k.fn = "UI.saveRecipe"
          /\ \A f \in DOMAIN recipe : tx.arg[f] = recipe[f]

\* C20: when the upload of UI.saveRecipe fails a notice is shown and the
\* record is put with the captured inline image; the put of UI.saveRecipe,
\* once it succeeds, stores the record as queued and makes the mirror call;
\* when Tesseract.recognize fails a notice is shown, the notes field, the
\* stores and the view stay as they are, the loader is hidden and the
\* extract button enabled.
C20_BestEffortFailures ==
    /\ (last.fn = "UI.saveRecipe.uploaded" /\ ~last.io)
          => /\ last.alerted =
                    {"Cloudinary upload failed. Saving image locally instead."}
             /\ last.arg.image = DataImage
             /\ QueuedPut(last.arg)
    /\ (last.fn = "UI.saveRecipe" /\ last.io)
          => /\ last.arg \in local
             /\ cloud # NoCloud
                    => [op |-> "saveRecipe", arg |-> last.arg] \in last.called
    /\ (last.fn = "UI.extractText" /\ ~last.io)
          => /\ last.alerted = {"Failed to extract text from image."}
             /\ last.kept
             /\ ~ocr.loader /\ ~ocr.disabled

\* With the upload configured, a recipe has been saved with the inline
\* image and its mirror call is in flight.
C20_Witness ==
    /\ last.fn = "UI.saveRecipe" /\ last.io
    /\ UploadWanted(settings, last.arg.image)
    /\ last.arg \in local
    /\ [op |-> "saveRecipe", arg |-> last.arg] \in net

(***************************************************************************)
(* Claims about the scanner and the scan-and-capture flow.                 *)
(***************************************************************************)

\* C21 as the specification states it: within one scanning session at most
\* one decoded value is passed to UI.handleScanResult, also when Html5Qrcode
\* delivers further decodes before scanner.stop() has settled, and after a
\* decode the camera is being released or is released.
C21_Original ==
    /\ scanner.passed <= 1
    /\ scanner.passed > 0 => scanner.cam \in {"stopping", "idle"}

\* C22: the lookup of a decoded value that resolves with a record opens the
\* detail view of that record; one that resolves without a record opens the
\* entry form with the barcode filled in and the name, the notes and the
\* captured image cleared, and shows no error; store.saveRecipe is only
\* reached with a non-empty name, from the entry form, and its success
\* opens the home view.
C22_ScanFlow ==
    /\ last.fn = "UI.handleScanResult" /\ last.io =>
           /\ last.alerted = {}
           /\ IF HasKey(local, last.arg)
              THEN view = "view-recipe-detail" /\ detail = last.arg
              ELSE /\ view = "view-recipe-entry"
                   /\ barcodeField = last.arg
                   /\ nameField = "" /\ notesField = ""
                   /\ capturedImage = Null
    /\ last.fn = "UI.saveRecipe.click" =>
           /\ view = "view-recipe-entry"
           /\ (QueuedPut(last.arg) \/ upload = last.arg) => last.arg.name # ""
    /\ last.fn = "UI.saveRecipe" =>
           /\ last.arg.name # ""
           /\ last.io => view = "view-home"

\* C22 happens: a lookup without a record has opened the entry form for the
\* decoded barcode.
C22_Witness ==
    /\ last.fn = "UI.handleScanResult" /\ last.io
    /\ ~HasKey(local, last.arg)
    /\ view = "view-recipe-entry" /\ barcodeField = last.arg

\* C24 as the specification states it: BarcodeScanner.stop has no further
\* effect and raises nothing when the scanner is not scanning or is already
\* being stopped.  The method keeps no note of a stop under way, so this
\* needs that it never runs its test of isScanning while scanner.stop() is
\* pending: there the second scanner.stop() and its rejection, which nothing
\* catches, are up to Html5Qrcode.
C24_Original == ~scanner.restop

(***************************************************************************)
(* Claims about the startup pull.                                          *)
(***************************************************************************)
\* The CloudStore calls that only read.
ReadCalls == {[op |-> "getAllRecipes"], [op |-> "getSettings"]}

\* C25: the startup pull is one-way.  Its steps make no CloudStore call and
\* delete nothing; as long as the user has written nothing, no write call is
\* in flight, the remote documents are those of the page load, every key
\* stored at the page load is still stored, and a record that had no remote
\* document is stored unchanged and still has no remote document.
C25_PullOneWay ==
    /\ last.fn \in {"UI.syncWithCloud.fetched", "UI.syncWithCloud",
                   "UI.syncSettingsWithCloud"} =>
           last.called = {} /\ last.wrote \in {"none", "put", "settings"}
    /\ ~mutated =>
           /\ net \subseteq ReadCalls
           /\ remote = remote0
           /\ \A r \in local0 :
                  /\ HasKey(local, r.barcode)
                  /\ ~HasKey(remote0, r.barcode) =>
                         r \in local /\ ~HasKey(remote, r.barcode)

\* C25 happens: the pull has saved remote records next to a record that only
\* the object store holds.
C25_Witness ==
    /\ ~mutated /\ syncPc = "done" /\ remote # {}
    /\ last.fn = "UI.syncWithCloud" /\ last.wrote = "put"
    /\ \E r \in local0 : ~HasKey(remote, r.barcode) /\ r \in local

\* C26: when the fetch of a startup pull fails, the object store, the stored
\* settings, UI.cloud and the active view are left as they were, nothing is
\* shown to the user, the handlers stay in place, and the record pull ends
\* with the syncing indicator cleared.
C26_FetchFailure ==
    /\ last.fn = "UI.syncWithCloud.fetched" /\ ~last.io =>
           /\ last.kept /\ last.alerted = {} /\ last.wrote = "none"
           /\ initPc = "ready" /\ syncPc = "failed"
    /\ last.fn = "UI.syncSettingsWithCloud" /\ ~last.io =>
           /\ last.kept /\ last.alerted = {} /\ last.wrote = "none"
           /\ initPc = "ready" /\ settingsPc = "failed"
    /\ syncPc \in {"idle", "done", "failed", "aborted"} => ~syncing
    /\ ~mutated /\ syncPc = "failed" /\ settingsPc = "failed" =>
           local = local0 /\ settings = settings0

\* C26 happens: both fetches have failed and the user has saved a recipe
\* afterwards.
C26_Witness ==
    /\ syncPc = "failed" /\ settingsPc = "failed" /\ ~syncing
    /\ local0 # {} /\ remote0 # {}
    /\ last.fn = "UI.saveRecipe" /\ last.io

\* C27 as the specification implies it: a record the user saved during the
\* session, and did not delete since, is the record the object store holds
\* for its key once the startup pull and every request have finished,
\* whatever the interleaving of UI.saveRecipe with the pull.
C27_Original ==
    Quiescent =>
        \A key \in Keys :
            userSaved[key] # NoRecord => userSaved[key] \in local

\* C28 as the specification implies it: text that UI.extractText wrote into
\* the notes field was read from the image of the entry being edited, also
\* when a new scan opened another entry while the run was in flight.
C28_Original ==
    \A key \in Keys : notesField = OcrText(key) => barcodeField = key

(***************************************************************************)
(* Claims about the image upload of UI.saveRecipe.                         *)
(***************************************************************************)
\* The save button is disabled (lines 1060 and 1069): UI.saveRecipe is
\* waiting for uploadToCloudinary.
SaveDisabled == upload # NoUpload

\* C29: a save with a name starts an upload exactly when cloudName and
\* uploadPreset are set and the captured image is inline, and the button is
\* disabled exactly then; without an upload the record is put with the
\* captured image.  When the upload settles the button is enabled again and
\* the record is put with the remote URL after a success and with the inline
\* image after a failure.  A stored image is the remote URL only with the
\* upload configured.
C29_UploadAndImage ==
    /\ last.fn = "UI.saveRecipe.click" =>
           LET inline == last.arg.image = DataImage
               wanted == /\ IsSet(settings, "cloudName")
                         /\ IsSet(settings, "uploadPreset")
                         /\ inline /\ last.arg.name # ""
           IN /\ SaveDisabled = wanted
              /\ wanted => upload = last.arg
              /\ last.arg.image = capturedImage
              /\ ~wanted /\ last.arg.name # "" => QueuedPut(last.arg)
    /\ last.fn = "UI.saveRecipe.uploaded" =>
           /\ ~SaveDisabled
           /\ QueuedPut(last.arg)
           /\ last.arg.image = IF last.io THEN UrlImage ELSE DataImage
    /\ last.fn = "UI.saveRecipe" /\ last.io =>
           /\ last.arg \in local
           /\ last.arg.image \in {UrlImage, DataImage, Null}
           /\ last.arg.image = UrlImage =>
                  IsSet(settings, "cloudName") /\ IsSet(settings, "uploadPreset")

\* C29 happens: a recipe is stored with the URL of its uploaded image and
\* the save button is enabled.
C29_Witness ==
    /\ last.fn = "UI.saveRecipe" /\ last.io
    /\ last.arg.image = UrlImage /\ last.arg \in local
    /\ ~SaveDisabled

(***************************************************************************)
(* Claims about the passcode gate of the settings view.                    *)
(***************************************************************************)
\* C30: the settings view is only active after validatePasscode has seen
\* the passcode, and validatePasscode with the passcode opens it and hides
\* the modal; with anything else it leaves the stores and the view as they
\* were, keeps the modal open, shows the error and empties the input;
\* hiding the modal leaves the stores and the view as they were.
C30_PasscodeGate ==
    /\ view = "view-settings" => modal.unlocked
    /\ last.fn = "UI.validatePasscode" =>
           IF last.arg = Passcode
           THEN view = "view-settings" /\ ~modal.open
           ELSE /\ last.kept /\ last.alerted = {}
                /\ modal.open /\ modal.error /\ modal.input = ""
    /\ last.fn = "UI.hidePasscodeModal" => last.kept /\ ~modal.open
    /\ last.fn = "UI.showPasscodeModal" =>
           last.kept /\ modal.open /\ ~modal.error /\ modal.input = ""

\* C30 happens: after a wrong passcode the right one has opened the
\* settings view.
C30_Witness ==
    /\ last.fn = "UI.validatePasscode" /\ last.arg = Passcode
    /\ modal.error /\ ~modal.open
    /\ view = "view-settings"

(***************************************************************************)
(* Claims about the lists of recipe cards.                                 *)
(***************************************************************************)
\* The records a list of cards shows.
Shown(cards) == {cards[i] : i \in 1..Len(cards)}

\* C31: when loadRecentRecipes has filled the recent list, it shows three
\* of the stored records, or all of them when fewer are stored, each once,
\* dates descending, and no record left out is newer than one shown, also
\* when the run overlapped another one; when loadFullList has filled the
\* full list, it shows every stored record once.
C31_Lists ==
    /\ got.op = "getAll" /\ got.fn = "UI.loadRecentRecipes" /\ got.io =>
           /\ Len(recentList) =
                  (IF Cardinality(local) < 3 THEN Cardinality(local) ELSE 3)
           /\ Shown(recentList) \subseteq local
           /\ Cardinality(Shown(recentList)) = Len(recentList)
           /\ \A i, j \in 1..Len(recentList) :
                  i < j => recentList[i].date >= recentList[j].date
           /\ \A r \in local \ Shown(recentList) :
                  \A i \in 1..Len(recentList) : recentList[i].date >= r.date
    /\ got.op = "getAll" /\ got.fn = "UI.loadFullList" /\ got.io =>
           /\ Shown(fullList) = local
           /\ Len(fullList) = Cardinality(local)

\* C31 happens: a run of loadRecentRecipes that was started while another
\* one was waiting has filled the list from a store of more than three
\* records of different dates, after a write of the session.
C31_Witness ==
    /\ got.op = "getAll" /\ got.fn = "UI.loadRecentRecipes" /\ got.io
    /\ got.overlaps
    /\ Cardinality(local) > 3 /\ Len(recentList) = 3
    /\ recentList[1].date > recentList[3].date
    /\ lastWrite["A"].op = "put"

\* C32: in a step that ends with a CloudStore whose db is null or whose
\* user id is empty, no request to the remote store is started, whatever
\* CloudStore method the step calls (requests in flight can only settle);
\* and the UI.init that builds such a CloudStore ends both startup pulls at
\* once, with the object store, its queue of transactions and the stored
\* settings as they were.
C32_UnusableCloud ==
    [][(cloud' # NoCloud /\ ~CloudUsable(cloud')) =>
           /\ net' \subseteq net
           /\ (remote' # remote \/ remoteSettings' # remoteSettings) =>
                  last'.fn = "mirror"
           /\ (last'.fn = "UI.init" /\ last'.io) =>
                  /\ syncPc' = "done" /\ settingsPc' = "done"
                  /\ ~syncing'
                  /\ local' = local /\ txq' = txq
                  /\ settings' = settings]_vars

\* C32 happens: the page was loaded with a CloudStore whose db is null, both
\* pulls ended without a request, and a save of the user called
\* cloud.saveRecipe, which started no request and left the remote documents
\* and the stored settings as they were.
C32_Witness ==
    /\ cloud # NoCloud /\ ~cloud.db
    /\ syncPc = "done" /\ settingsPc = "done"
    /\ last.fn = "UI.saveRecipe" /\ last.io
    /\ last.called = {[op |-> "saveRecipe", arg |-> last.arg]}
    /\ net = {}
    /\ remote = remote0 /\ remote # {}
    /\ settings = settings0

====
